---------------------------- MODULE Spec2Model ----------------------------
(***************************************************************************)
(* Model of c_src/ethercat_nif.c: the EtherCAT NIF of ethercat_ex.         *)
(*                                                                         *)
(* The private data of the NIF library is one ethercat_context_t: the      *)
(* master handle and the head of a singly linked list of domain nodes.     *)
(* The NIFs request_master, master_create_domain, master_remove_domain,    *)
(* master_get_slave, master_activate, master_queue_all_domains and         *)
(* master_send run to completion on a scheduler thread and are one action  *)
(* each, and so is the unload callback.  The NIF                           *)
(* "run" is a dirty I/O job: it executes on its own worker thread, so its  *)
(* loop is modelled statement by statement and the other NIFs interleave   *)
(* with it.                                                                *)
(*                                                                         *)
(* The specifications share the actions.  SpecSetup is the setup phase:    *)
(* the NIFs that build the registry, called with every kind of name, with  *)
(* the caller's view of each call (argument, return value) recorded.       *)
(* SpecBus is every NIF but run, and the unloading of the library, with    *)
(* the names "A" and "B" and the caller's view recorded.  Spec is the      *)
(* whole program, the run loop included, with the names "A" and "B" and no *)
(* record of the caller's view; SpecLive is Spec with the worker thread of *)
(* the loop scheduled fairly.                                              *)
(*                                                                         *)
(* Strings are sequences of character codes.  Pointers are node numbers,   *)
(* NULL is 0.  The Fieldbus Master library (the ecrt functions) and the    *)
(* runtime (the enif functions) are modelled at their documented           *)
(* interface.                                                              *)
(***************************************************************************)
EXTENDS Integers, Sequences, FiniteSets

(***************************************************************************)
(* Bounds of the model.                                                    *)
(***************************************************************************)
\* Number of domain handles the Fieldbus Master can hand out before its
\* ecrt_master_create_domain reports failure.
MaxDomains == 3
\* Number of memory cells enif_alloc can hand out for domain_node_t.
MaxNodes == 3
\* Number of slaves on the bus: positions 0 .. NumSlaves - 1.
NumSlaves == 2

(***************************************************************************)
(* Program constants.                                                      *)
(***************************************************************************)
\* char name[256]
NAME_SIZE == 256

NULL == 0

NodeIds == 1..MaxNodes
DomainIds == 1..MaxDomains

\* ec_wc_state_t
WcStates == {"EC_WC_ZERO", "EC_WC_INCOMPLETE", "EC_WC_COMPLETE"}

\* The string literal "this is a test", as character codes.
TestMessage ==
    <<116, 104, 105, 115, 32, 105, 115, 32, 97, 32, 116, 101, 115, 116>>

\* ecrt_master_activate and ecrt_master_get_slave return 0 on success and a
\* negative error code on failure.
LibResults == {0, -1}

\* ec_slave_info_t, the fields the NIF reads.  The record the Fieldbus
\* Master fills in for the slave at a position.
SlaveInfoOf(position) ==
    [position |-> position, vendor_id |-> 2, product_code |-> 100 + position,
     revision_number |-> 1, serial_number |-> 1000 + position, alias |-> 0,
     current_on_ebus |-> 0 - position]

\* `ec_slave_info_t slave_info;` is not initialised: before the Fieldbus
\* Master fills it in, it holds what the stack held: zeros, ones, or the
\* record an earlier call left there.
Unfilled ==
    {[position |-> g, vendor_id |-> g, product_code |-> g,
      revision_number |-> g, serial_number |-> g, alias |-> g,
      current_on_ebus |-> g] : g \in {0, 1}}
    \cup {SlaveInfoOf(0)}

\* The terms callers pass as a slave index: the positions of the slaves, the
\* first position with no slave, and a term that is no unsigned integer.
IndexTerms == {-1} \cup 0..NumSlaves

\* enif_get_uint(env, term, &index): 0 if the term is no unsigned integer.
enif_get_uint(term) ==
    IF term >= 0 THEN [ret |-> 1, index |-> term] ELSE [ret |-> 0, index |-> 0]

\* ecrt_master_get_slave(master, index, &slave_info) on a live master: 0 and
\* the record filled in if there is a slave at the position, a negative
\* error code and the record left as it was if not.
ecrt_master_get_slave(index, slave_info) ==
    IF index < NumSlaves
    THEN [ret |-> 0, slave_info |-> SlaveInfoOf(index)]
    ELSE [ret |-> -1, slave_info |-> slave_info]

\* Lines 114-130: the map with the fields of slave_info.
MakeMap(slave_info) ==
    [position |-> slave_info.position, vendor_id |-> slave_info.vendor_id,
     product_code |-> slave_info.product_code,
     revision_number |-> slave_info.revision_number,
     serial_number |-> slave_info.serial_number, alias |-> slave_info.alias,
     current_on_ebus |-> slave_info.current_on_ebus]

NoMap == MakeMap(SlaveInfoOf(0))

(***************************************************************************)
(* The terms callers pass as a domain name.  "A" and "B"; two names of     *)
(* NAME_SIZE characters that differ only in their last character; and a    *)
(* list that is no Latin-1 string.                                         *)
(***************************************************************************)
NameA == <<65>>
NameB == <<66>>
LongPrefix == [i \in 1..(NAME_SIZE - 1) |-> 97]
LongX == LongPrefix \o <<120>>
LongY == LongPrefix \o <<121>>
NotLatin1 == <<300>>

Terms == {NameA, NameB, LongX, LongY, NotLatin1}

\* The terms that are strings (lists of bytes): the names a caller can pass.
IsString(term) == \A i \in 1..Len(term) : term[i] \in 0..255

(***************************************************************************)
(* C strings.                                                              *)
(***************************************************************************)
\* The characters of a char buffer before its first zero byte.
CStr(buf) ==
    LET zeros == {i \in 1..Len(buf) : buf[i] = 0}
    IN IF zeros = {} THEN buf
       ELSE SubSeq(buf, 1, (CHOOSE i \in zeros : \A j \in zeros : i <= j) - 1)

\* enif_get_string(env, term, buf, size, ERL_NIF_LATIN1): 0 if the term is
\* no Latin-1 string; -size, with the first size-1 characters written, if
\* the string does not fit; otherwise the bytes written, with the
\* terminating zero.
enif_get_string(term, size) ==
    IF ~IsString(term) THEN [ret |-> 0, buf |-> <<>>]
    ELSE IF Len(term) >= size
         THEN [ret |-> 0 - size, buf |-> SubSeq(term, 1, size - 1)]
         ELSE [ret |-> Len(term) + 1, buf |-> term]

\* What the two NIFs that take a name find in `char name[NAME_SIZE]` after
\* enif_get_string, read as a C string, and what enif_get_string returned.
\* nameOf[term] is computed once per term.
nameOf ==
    [term \in Terms |->
        LET got == enif_get_string(term, NAME_SIZE)
        IN [ret |-> got.ret, name |-> CStr(got.buf)]]

GetName(term) == nameOf[term]

\* strcmp on two C strings: 0 exactly when they are equal.
strcmp(a, b) == IF a = b THEN 0 ELSE 1

\* strcpy(dst, src): dst holds the C string src.
strcpy(src) == src

VARIABLES
    master,       \* context->master: NULL or the handle
    domain_list,  \* context->domain_list: head of the linked list
    heap,         \* the domain_node_t cells: name, domain, next
    allocated,    \* the cells enif_alloc handed out and enif_free has not taken back
    nextDomain,   \* number of domains the Fieldbus Master has allocated
    held,         \* master handles requested and not released: none, one,
                  \* more than one
    loaded,       \* the library is loaded: the context exists
    fault,        \* "none", or the fault that terminated the emulator
    call,         \* the last setup NIF call and what it returned
    passed,       \* the names passed to master_create_domain so far
    pure,         \* only master_create_domain calls with a live master and
                  \* succeeding allocations were made so far
    pc,           \* position of the run loop
    current,      \* the loop's local variable current
    received,     \* ecrt_master_receive was invoked in this iteration
    processed,    \* per domain: ecrt_domain_process calls in this iteration
    notified,     \* per domain: messages sent on its evaluation in this iteration
    wc,           \* per domain: the last state ecrt_domain_state reported in this iteration
    mbox,         \* the messages enif_send delivered in this iteration
    queued,       \* the domains the loop passed to ecrt_domain_queue in this iteration
    sends,        \* the ecrt_master_send calls the loop made in this iteration
    mutated       \* a NIF changed the registry since this iteration started

regVars == <<master, domain_list, heap, allocated, nextDomain, held, loaded>>
cycleVars == <<pc, current, received, processed, notified, wc, mbox,
               queued, sends>>
loopVars == <<cycleVars, mutated>>
ghostVars == <<passed, pure>>
vars == <<master, domain_list, heap, allocated, nextDomain, held, loaded,
          fault, call, passed, pure, pc, current, received, processed,
          notified, wc, mbox, queued, sends, mutated>>

\* What a cell holds before its first allocation.
FreeCell == [name |-> <<>>, domain |-> NULL, next |-> NULL]

(***************************************************************************)
(* The registry: the list reachable from context->domain_list.             *)
(***************************************************************************)
RECURSIVE ListFrom(_, _, _)
ListFrom(h, p, fuel) ==
    IF p = NULL \/ fuel = 0 THEN <<>>
    ELSE <<p>> \o ListFrom(h, h[p].next, fuel - 1)

\* The nodes of the registry, head first.
Nodes == ListFrom(heap, domain_list, MaxNodes)

RegistrySize == Len(Nodes)

\* The entries of the registry: (name, handle) pairs.
Entries == {[name |-> heap[Nodes[i]].name, domain |-> heap[Nodes[i]].domain] :
             i \in 1..Len(Nodes)}

RegisteredNames == {heap[Nodes[i]].name : i \in 1..Len(Nodes)}

RegisteredDomains == {heap[Nodes[i]].domain : i \in 1..Len(Nodes)}

\* Index in the list of the first node whose name compares equal, 0 if none:
\* the scan `while (current) { if (strcmp(current->name, name) == 0) ...`.
FirstMatch(name) ==
    LET hits == {i \in 1..Len(Nodes) : strcmp(heap[Nodes[i]].name, name) = 0}
    IN IF hits = {} THEN 0
       ELSE CHOOSE i \in hits : \A j \in hits : i <= j

\* get_domain_by_name: the node, or NULL.
get_domain_by_name(name) ==
    IF FirstMatch(name) = 0 THEN NULL ELSE Nodes[FirstMatch(name)]

\* The record of a setup NIF call: the NIF, its argument and what it
\* returned, with
\*   before    the size of the registry before the call,
\*   had       the registry held an entry with the argument as its name,
\*   live      the call was made with a master handle and every allocation
\*             it attempted succeeded,
\*   follows   the call before it was a remove_domain of the same argument
\*             that returned ok,
\*   unqueued  for a NIF that invokes ecrt_master_send: the registered
\*             domains not passed to ecrt_domain_queue since the last send,
\*   nullcall  the call passed a null master handle to the Fieldbus Master,
\*   libret    for activate and get_slave: what the Fieldbus Master returned,
\*   index     for get_slave: the index passed,
\*   map       for get_slave returning a map (ret is "map"): the map.
NoCall == [op |-> "none", arg |-> <<>>, ret |-> "none", before |-> 0,
           had |-> FALSE, live |-> FALSE, follows |-> FALSE, unqueued |-> {},
           nullcall |-> FALSE, libret |-> 0, index |-> 0, map |-> NoMap]

Returned(op, arg, ret, live, unq) ==
    [op |-> op, arg |-> arg, ret |-> ret, before |-> RegistrySize,
     had |-> arg \in RegisteredNames, live |-> live,
     follows |-> /\ call.op = "remove_domain"
                 /\ call.ret = "ok"
                 /\ call.arg = arg
                 /\ op = "create_domain",
     unqueued |-> unq, nullcall |-> FALSE, libret |-> 0, index |-> 0,
     map |-> NoMap]

\* The same, for a call that passed the master handle to the Fieldbus
\* Master when it was null.
ReturnedNull(op, arg, ret, live, unq) ==
    [Returned(op, arg, ret, live, unq) EXCEPT !.nullcall = master = NULL]

\* The caller's view after a call, when it is recorded (obs).
Observed(obs, record) == call' = IF obs THEN record ELSE call

ZeroCount == [d \in DomainIds |-> 0]
NoState == [d \in DomainIds |-> "none"]

\* load: the context is allocated with no master and an empty list.
Init ==
    /\ master = NULL
    /\ domain_list = NULL
    /\ heap = [n \in NodeIds |-> FreeCell]
    /\ allocated = {}
    /\ nextDomain = 0
    /\ held = 0
    /\ loaded = TRUE
    /\ fault = "none"
    /\ call = NoCall
    /\ passed = {}
    /\ pure = TRUE
    /\ pc = "idle"
    /\ current = NULL
    /\ received = FALSE
    /\ processed = ZeroCount
    /\ notified = ZeroCount
    /\ wc = NoState
    /\ mbox = <<>>
    /\ queued = {}
    /\ sends = 0
    /\ mutated = FALSE

\* A fault terminates the emulator: the context, the list and the run
\* loop are gone with the process; only the kind of fault is kept.
Faults(kind) ==
    /\ fault' = kind
    /\ master' = NULL
    /\ domain_list' = NULL
    /\ heap' = [n \in NodeIds |-> FreeCell]
    /\ allocated' = {}
    /\ nextDomain' = 0
    /\ held' = 0
    /\ loaded' = TRUE
    /\ call' = NoCall
    /\ passed' = {}
    /\ pure' = FALSE
    /\ pc' = "idle"
    /\ current' = NULL
    /\ received' = FALSE
    /\ processed' = ZeroCount
    /\ notified' = ZeroCount
    /\ wc' = NoState
    /\ mbox' = <<>>
    /\ queued' = {}
    /\ sends' = 0
    /\ mutated' = FALSE

Running == fault = "none" /\ loaded

\* A NIF changes the registry: if the run loop has started, its current
\* iteration is one the registry changed under.
Mutates == mutated' = (mutated \/ pc # "idle")

(***************************************************************************)
(* nif_request_master                                                      *)
(***************************************************************************)
\* Counting: none, one, more than one.
Bump(n) == IF n = 0 THEN 1 ELSE 2

\* ecrt_request_master(0): a handle, or NULL.
ecrt_request_master(ok) == IF ok THEN 1 ELSE NULL

\* ok: whether ecrt_request_master(0) hands out a master.  The handle
\* context->master held before the call is overwritten, not released.
request_master(ok, obs) ==
    /\ Running
    /\ master' = ecrt_request_master(ok)
    /\ held' = IF ok THEN Bump(held) ELSE held
    /\ Observed(obs, Returned("request_master", <<>>,
                              IF ok THEN "ok" ELSE "error", ok, {}))
    /\ UNCHANGED <<domain_list, heap, allocated, nextDomain, loaded, fault,
                   ghostVars, loopVars>>

(***************************************************************************)
(* nif_master_create_domain                                                *)
(***************************************************************************)
\* The duplicate check: `while (current) { if (strcmp(...) == 0) return error`.
IsDuplicate_skipHead(name) ==
    \E i \in 2..Len(Nodes) : strcmp(heap[Nodes[i]].name, name) = 0

IsDuplicate_staleCells(name) ==
    \E n \in NodeIds : strcmp(heap[n].name, name) = 0

IsDuplicate(name) ==
    \E i \in 1..Len(Nodes) : strcmp(heap[Nodes[i]].name, name) = 0

\* ecrt_master_create_domain on a live master: a new handle, or NULL.
ecrt_master_create_domain(ok) ==
    IF ok /\ nextDomain < MaxDomains THEN nextDomain + 1 ELSE NULL

\* enif_alloc(sizeof(domain_node_t)): the free cell with the lowest address,
\* or NULL when the allocation fails.
enif_alloc(ok) ==
    LET free == NodeIds \ allocated
    IN IF ok /\ free # {}
       THEN CHOOSE n \in free : \A m \in free : n <= m
       ELSE NULL

\* Lines 65-68: fill the new node and make it the head of the list.
PushFront(h, head, node, name, domain) ==
    [heap |-> [h EXCEPT ![node] = [name |-> strcpy(name), domain |-> domain,
                                   next |-> head]],
     head |-> node]

\* The call returns ret; live: it was made with a live master and its
\* allocations, if any, succeeded.
CreateReturns(term, ret, live, obs) ==
    /\ Observed(obs, IF IsDuplicate(GetName(term).name)
                     THEN Returned("create_domain", term, ret, live, {})
                     ELSE \* the call went on to line 56
                          ReturnedNull("create_domain", term, ret, live, {}))
    /\ pure' = IF obs THEN pure /\ live ELSE pure
    /\ passed' = IF ~obs THEN passed
                 ELSE IF pure /\ live THEN passed \cup {term} ELSE {}

\* term: the argument; domOk: whether the Fieldbus Master can allocate a
\* domain; nodeOk: whether enif_alloc can allocate the node.
create_domain(term, domOk, nodeOk, obs) ==
    /\ Running
    /\ LET got == GetName(term)
           name == got.name
           domain == ecrt_master_create_domain(domOk)
           node == enif_alloc(nodeOk)
       IN IF got.ret = 0
          THEN \* return enif_make_badarg(env)
               /\ Observed(obs, Returned("create_domain", term, "badarg",
                                       master # NULL, {}))
               /\ UNCHANGED <<regVars, fault, ghostVars, loopVars>>
          ELSE IF IsDuplicate(name)
          THEN /\ CreateReturns(term, "error", master # NULL, obs)
               /\ UNCHANGED <<regVars, fault, loopVars>>
          ELSE IF master = NULL
          THEN \* ecrt_master_create_domain(NULL): the library dereferences
               \* the handle; the call faults or reports failure
               \/ Faults("null_handle")
               \/ /\ CreateReturns(term, "error", FALSE, obs)
                  /\ UNCHANGED <<regVars, fault, loopVars>>
          ELSE IF domain = NULL
          THEN /\ CreateReturns(term, "error", FALSE, obs)
               /\ UNCHANGED <<regVars, fault, loopVars>>
          ELSE IF node = NULL
          THEN \* `if (!new_node) { if (!domain) return ...; }` does not
               \* return: strcpy writes through the null pointer.  The
               \* writes fault, or they go through and the head of the
               \* list becomes the null pointer.
               \/ Faults("null_node")
               \/ /\ nextDomain' = domain
                  /\ domain_list' = NULL
                  /\ CreateReturns(term, "ok", FALSE, obs)
                  /\ Mutates
                  /\ UNCHANGED <<master, heap, allocated, held, loaded, fault,
                                 cycleVars>>
          ELSE LET new == PushFront(heap, domain_list, node, name, domain)
               IN /\ nextDomain' = domain
                  /\ allocated' = allocated \cup {node}
                  /\ heap' = new.heap
                  /\ domain_list' = new.head
                  /\ CreateReturns(term, "ok", TRUE, obs)
                  /\ Mutates
                  /\ UNCHANGED <<master, held, loaded, fault, cycleVars>>

(***************************************************************************)
(* nif_master_remove_domain                                                *)
(***************************************************************************)
\* Lines 86-90: take cur out of the list; prev is the node before it, or
\* NULL when cur is the head.
Unlink_headOnly(h, head, prev, cur) ==
    [heap |-> h, head |-> h[cur].next]

Unlink(h, head, prev, cur) ==
    IF prev # NULL
    THEN [heap |-> [h EXCEPT ![prev].next = h[cur].next], head |-> head]
    ELSE [heap |-> h, head |-> h[cur].next]

\* enif_free(cur): the cell is no longer allocated; its bytes stay as they
\* are until the cell is allocated again.
enif_free(cells, cur) == cells \ {cur}

RemoveReturns(term, ret, obs) ==
    /\ Observed(obs, Returned("remove_domain", term, ret, master # NULL, {}))
    /\ pure' = IF obs THEN FALSE ELSE pure
    /\ passed' = IF obs THEN {} ELSE passed

remove_domain(term, obs) ==
    /\ Running
    /\ LET got == GetName(term)
           name == got.name
           pos == FirstMatch(name)
       IN IF got.ret = 0
          THEN \* return enif_make_badarg(env)
               /\ Observed(obs, Returned("remove_domain", term, "badarg",
                                       master # NULL, {}))
               /\ UNCHANGED <<regVars, ghostVars, mutated>>
          ELSE IF pos = 0
          THEN /\ RemoveReturns(term, "error", obs)
               /\ UNCHANGED <<regVars, mutated>>
          ELSE LET cur == Nodes[pos]
                   prev == IF pos = 1 THEN NULL ELSE Nodes[pos - 1]
                   new == Unlink(heap, domain_list, prev, cur)
               IN /\ heap' = new.heap
                  /\ domain_list' = new.head
                  /\ allocated' = enif_free(allocated, cur)
                  /\ RemoveReturns(term, "ok", obs)
                  /\ Mutates
                  /\ UNCHANGED <<master, nextDomain, held, loaded>>
    /\ UNCHANGED <<fault, cycleVars>>

(***************************************************************************)
(* nif_master_get_slave and nif_master_activate                            *)
(***************************************************************************)
\* What a NIF does with the result of a Fieldbus Master function that
\* returns 0 on success.  get_slave: `if (!ecrt_master_get_slave(...))
\* return error`, the map otherwise.
GetSlaveReturns(libret) == IF libret = 0 THEN "error" ELSE "map"

\* activate: `if (ecrt_master_activate(...)) enif_make_atom(env, "error");
\* return enif_make_atom(env, "ok");` - the atom error is made and dropped.
ActivateReturns(libret) == "ok"

\* term: the argument; stack: what slave_info holds on entry.  On a null
\* handle the library faults or reports failure.
get_slave(term, stack, obs) ==
    /\ Running
    /\ LET got == enif_get_uint(term)
           looked == IF master = NULL THEN [ret |-> -1, slave_info |-> stack]
                     ELSE ecrt_master_get_slave(got.index, stack)
       IN IF got.ret = 0
          THEN \* return enif_make_badarg(env)
               /\ Observed(obs, Returned("get_slave", <<>>, "badarg",
                                         master # NULL, {}))
               /\ UNCHANGED <<regVars, fault, ghostVars, loopVars>>
          ELSE \/ /\ Observed(obs,
                        [ReturnedNull("get_slave", <<>>,
                                      GetSlaveReturns(looked.ret),
                                      master # NULL, {})
                            EXCEPT !.libret = looked.ret,
                                   !.index = got.index,
                                   !.map = IF GetSlaveReturns(looked.ret) = "map"
                                           THEN MakeMap(looked.slave_info)
                                           ELSE NoMap])
                  /\ UNCHANGED <<regVars, fault, ghostVars, loopVars>>
               \/ /\ master = NULL
                  /\ Faults("null_handle")

\* res: what ecrt_master_activate returns on a live master.
activate(res, obs) ==
    /\ Running
    /\ \/ LET libret == IF master = NULL THEN -1 ELSE res IN
            /\ Observed(obs,
                  [ReturnedNull("activate", <<>>, ActivateReturns(libret),
                                master # NULL, {})
                      EXCEPT !.libret = libret])
            /\ UNCHANGED <<regVars, fault, ghostVars, loopVars>>
       \/ /\ master = NULL
          /\ Faults("null_handle")

(***************************************************************************)
(* nif_queue_all_domains and nif_master_send                               *)
(***************************************************************************)
\* The domains passed to ecrt_domain_queue by the loop of lines 186-190.
QueuedByQueueAll == {heap[Nodes[i]].domain : i \in 1..Len(Nodes)}

\* ecrt_master_send(context->master), with q the domains passed to
\* ecrt_domain_queue since the previous send.  On a null handle the
\* library faults, or the call has no effect.
Sends(op, q, obs) ==
    \/ /\ Observed(obs, ReturnedNull(op, <<>>, "ok", master # NULL,
                                     RegisteredDomains \ q))
       /\ UNCHANGED <<regVars, fault, ghostVars, loopVars>>
    \/ /\ master = NULL
       /\ Faults("null_handle")

queue_all_domains(obs) ==
    /\ Running
    /\ Sends("queue_all_domains", QueuedByQueueAll, obs)

\* No NIF but queue_all_domains passes a domain to ecrt_domain_queue, and it
\* sends at once: master_send finds nothing queued since the previous send.
master_send(obs) ==
    /\ Running
    /\ Sends("master_send", {}, obs)

(***************************************************************************)
(* check_domain_state and nif_cyclic_task                                  *)
(***************************************************************************)
\* check_domain_state: `return ds.wc_state == EC_WC_COMPLETE`.
check_domain_state(ds) == ds = "EC_WC_COMPLETE"

\* The message of line 228, built for the domain being evaluated.
enif_make_string(domain) == TestMessage

\* Reading a field of *current.  When master_remove_domain has freed the
\* cell while the loop held a pointer to it, the read yields what the cell
\* holds now: the bytes of the freed node, the allocator's, or those of a
\* node allocated since.
DomainOf(p) == heap[p].domain

NextOf_skipOne(p) ==
    IF heap[p].next = NULL THEN NULL ELSE heap[heap[p].next].next

NextOf(p) == heap[p].next

\* Where the loop goes after `while (current)` is evaluated.
AfterTest(cur) == IF cur = NULL THEN "end" ELSE "process"

\* Where `while (1)` continues after the inner loop.
LoopBack_noReceive == "load"

LoopBack_returns == "idle"

LoopBack == "receive"

\* The read of *current faults when the cell is no longer mapped.
ReadFaults ==
    /\ current \notin allocated
    /\ Faults("freed_node")

\* enif_self, then entry into `while (1)`.
run(selfOk) ==
    /\ Running
    /\ pc = "idle"
    /\ IF selfOk
       THEN pc' = "receive"
       ELSE \* return enif_make_atom(env, "error")
            UNCHANGED pc
    /\ UNCHANGED call
    /\ UNCHANGED <<regVars, fault, ghostVars, mutated, current, received, processed,
                   notified, wc, mbox, queued, sends>>

\* ecrt_master_receive(context->master)
RunReceive ==
    /\ Running
    /\ pc = "receive"
    /\ \/ /\ received' = TRUE
          /\ pc' = "load"
          /\ UNCHANGED <<regVars, fault, call, ghostVars, mutated,
                         current, processed,
                         notified, wc, mbox, queued, sends>>
       \/ /\ master = NULL
          /\ Faults("null_handle")

\* current = context->domain_list; while (current)
RunLoad ==
    /\ Running
    /\ pc = "load"
    /\ current' = domain_list
    /\ pc' = AfterTest(domain_list)
    /\ UNCHANGED <<regVars, fault, call, ghostVars, mutated,
                         received, processed,
                   notified, wc, mbox, queued, sends>>

\* ecrt_domain_process(current->domain)
RunProcess ==
    /\ Running
    /\ pc = "process"
    /\ \/ LET d == DomainOf(current) IN
            /\ processed' = IF d = NULL THEN processed
                            ELSE [processed EXCEPT ![d] = Bump(@)]
            /\ pc' = "check"
            /\ UNCHANGED <<regVars, fault, call, ghostVars, mutated,
                         current,
                           received, notified, wc, mbox, queued, sends>>
       \/ ReadFaults

\* if (check_domain_state(current->domain, env)) enif_send(...)
RunCheck ==
    /\ Running
    /\ pc = "check"
    /\ \/ \E ds \in WcStates : LET d == DomainOf(current) IN
            /\ wc' = IF d = NULL THEN wc ELSE [wc EXCEPT ![d] = ds]
            /\ IF check_domain_state(ds)
               THEN /\ mbox' = IF Len(mbox) > MaxDomains THEN mbox
                               ELSE Append(mbox, enif_make_string(d))
                    /\ notified' = IF d = NULL THEN notified
                                   ELSE [notified EXCEPT ![d] = Bump(@)]
               ELSE UNCHANGED <<mbox, notified>>
            /\ pc' = "advance"
            /\ UNCHANGED <<regVars, fault, call, ghostVars, mutated,
                         current,
                           received, processed, queued, sends>>
       \/ ReadFaults

\* current = current->next; while (current)
RunAdvance ==
    /\ Running
    /\ pc = "advance"
    /\ \/ LET n == NextOf(current) IN
            /\ current' = n
            /\ pc' = AfterTest(n)
            /\ UNCHANGED <<regVars, fault, call, ghostVars, mutated,
                         received,
                           processed, notified, wc, mbox, queued, sends>>
       \/ ReadFaults

\* The end of the body of `while (1)`: the next iteration starts.
RunEnd ==
    /\ Running
    /\ pc = "end"
    /\ pc' = LoopBack
    /\ current' = NULL
    /\ received' = FALSE
    /\ processed' = ZeroCount
    /\ notified' = ZeroCount
    /\ wc' = NoState
    /\ mbox' = <<>>
    /\ queued' = {}
    /\ sends' = 0
    /\ mutated' = FALSE
    /\ UNCHANGED <<regVars, fault, call, ghostVars>>

(***************************************************************************)
(* unload                                                                  *)
(***************************************************************************)
\* Lines 253-259: every node of the list is freed.
FreeList(cells, nodes) == cells \ {nodes[i] : i \in 1..Len(nodes)}

\* ecrt_release_master(context->master): the handle is released; of more
\* than one handle, at least one remains.  On a null handle nothing is
\* released.
ecrt_release_master(handle, n) == IF handle # NULL THEN n - 1 ELSE n

\* The library is unloaded when no NIF of it executes.  The context is
\* freed with it: what remains is what was not released.
unload ==
    /\ Running
    /\ pc = "idle"
    /\ \/ /\ loaded' = FALSE
          /\ allocated' = FreeList(allocated, Nodes)
          /\ held' = ecrt_release_master(master, held)
          /\ master' = NULL
          /\ domain_list' = NULL
          /\ heap' = [n \in NodeIds |-> FreeCell]
          /\ nextDomain' = 0
          /\ call' = NoCall
          /\ passed' = {}
          /\ pure' = FALSE
          /\ UNCHANGED <<fault, loopVars>>
       \/ \* ecrt_release_master(NULL): the library dereferences the handle
          /\ master = NULL
          /\ Faults("null_handle")

(***************************************************************************)
(* The setup phase: the NIFs that build the registry, called with every    *)
(* kind of name.                                                           *)
(***************************************************************************)
NextSetup ==
    \/ \E ok \in BOOLEAN : request_master(ok, TRUE)
    \/ \E term \in Terms, domOk \in BOOLEAN, nodeOk \in BOOLEAN :
            create_domain(term, domOk, nodeOk, TRUE)
    \/ \E term \in Terms : remove_domain(term, TRUE)
    \/ queue_all_domains(TRUE)
    \/ master_send(TRUE)

SpecSetup == Init /\ [][NextSetup]_vars

(***************************************************************************)
(* The bus NIFs and teardown: every NIF but run, called with the names     *)
(* "A" and "B", and the unloading of the library.                          *)
(***************************************************************************)
RunTerms == {NameA, NameB}

NextBus ==
    \/ \E ok \in BOOLEAN : request_master(ok, TRUE)
    \/ \E term \in RunTerms, domOk \in BOOLEAN, nodeOk \in BOOLEAN :
            create_domain(term, domOk, nodeOk, TRUE)
    \/ \E term \in RunTerms : remove_domain(term, TRUE)
    \/ queue_all_domains(TRUE)
    \/ master_send(TRUE)
    \/ \E term \in IndexTerms, stack \in Unfilled : get_slave(term, stack, TRUE)
    \/ \E res \in LibResults : activate(res, TRUE)
    \/ unload

SpecBus == Init /\ [][NextBus]_vars

(***************************************************************************)
(* The whole program: the NIFs and the run loop on its worker thread.      *)
(***************************************************************************)

Next ==
    \/ \E ok \in BOOLEAN : request_master(ok, FALSE)
    \/ \E term \in RunTerms, domOk \in BOOLEAN, nodeOk \in BOOLEAN :
            create_domain(term, domOk, nodeOk, FALSE)
    \/ \E term \in RunTerms : remove_domain(term, FALSE)
    \/ queue_all_domains(FALSE)
    \/ master_send(FALSE)
    \/ \E term \in IndexTerms, stack \in Unfilled : get_slave(term, stack, FALSE)
    \/ \E res \in LibResults : activate(res, FALSE)
    \/ \E selfOk \in BOOLEAN : run(selfOk)
    \/ RunReceive
    \/ RunLoad
    \/ RunProcess
    \/ RunCheck
    \/ RunAdvance
    \/ RunEnd
    \/ unload

Spec == Init /\ [][Next]_vars

\* The worker thread that executes run is scheduled: a statement of the
\* loop that can execute eventually does.
RunStep ==
    RunReceive \/ RunLoad \/ RunProcess \/ RunCheck \/ RunAdvance \/ RunEnd

SpecLive == Spec /\ WF_vars(RunStep)

(***************************************************************************)
(* Claims about the setup NIFs and teardown (SpecSetup, SpecBus).  Under   *)
(* these every step records its call, so call' names the NIF a step        *)
(* executed.                                                               *)
(***************************************************************************)

\* C1: after any sequence of create_domain and remove_domain calls, no two
\* entries of the domain registry have the same name.
C1_UniqueNames ==
    \A i, j \in 1..Len(Nodes) :
        i # j => heap[Nodes[i]].name # heap[Nodes[j]].name

\* A create_domain call was refused as a duplicate while the registry held
\* two entries, after an entry had been removed.
C1_Witness ==
    /\ call.op = "create_domain"
    /\ call.ret = "error"
    /\ call.had
    /\ RegistrySize = 2
    /\ nextDomain = 3

\* C2: in a sequence of create_domain calls made with a live master and
\* succeeding allocations, the registry size equals the number of distinct
\* names passed; a call with a name not yet registered returns ok and adds
\* exactly one entry; a call with a registered name returns error, allocates
\* no domain and leaves the registry unchanged.
C2_SizeIsDistinctNames ==
    [][pure' =>
        /\ RegistrySize' = Cardinality(passed')
        /\ (call'.op = "create_domain" /\ IsString(call'.arg)) =>
              IF call'.arg \in RegisteredNames
              THEN /\ call'.ret = "error"
                   /\ nextDomain' = nextDomain
                   /\ Nodes' = Nodes
                   /\ Entries' = Entries
              ELSE /\ call'.ret = "ok"
                   /\ RegistrySize' = RegistrySize + 1]_vars

C5_RemoveAbsent ==
    [][(/\ call'.op = "remove_domain"
        /\ IsString(call'.arg)
        /\ call'.arg \notin RegisteredNames) =>
            /\ call'.ret = "error"
            /\ Nodes' = Nodes
            /\ Entries' = Entries
            /\ allocated' = allocated]_vars

\* C7: ecrt_master_send is never invoked before every registered domain has
\* been queued: in every operation that invokes send, each registered
\* domain has been passed to ecrt_domain_queue since the previous send.
C7_SendAfterQueue ==
    call.op \in {"queue_all_domains", "master_send"} => call.unqueued = {}

\* C11: when no master handle is held, create_domain(name) returns error
\* without invoking the Fieldbus Master's domain allocation on the absent
\* handle, and leaves the registry unchanged.
C11_CreateWithoutMaster ==
    [][(/\ call'.op = "create_domain"
        /\ call'.ret # "badarg"
        /\ master = NULL) =>
            /\ call'.ret = "error"
            /\ ~call'.nullcall
            /\ Nodes' = Nodes
            /\ Entries' = Entries]_vars

\* C12: activate, send, queue_all_domains and get_slave are invoked on the
\* Fieldbus Master only while a successfully requested master is held: no
\* call passes it a null master handle.
C12_NoNullHandleOps ==
    call.op \in {"activate", "master_send", "queue_all_domains", "get_slave"}
        => ~call.nullcall

\* C13: activate returns error whenever ecrt_master_activate reports failure
\* (a non-zero result), and ok only when the activation succeeded.  Stated
\* for calls made with a master handle.
C13_ActivateReportsFailure ==
    (call.op = "activate" /\ call.live) =>
        /\ call.libret # 0 => call.ret = "error"
        /\ call.ret = "ok" => call.libret = 0

\* C14: get_slave(index) returns error when the lookup of the Fieldbus
\* Master fails (non-zero), and a map only when the lookup returned 0, with
\* the values the Fieldbus Master filled in; never a map built from a record
\* that was not filled in.  Stated for calls made with a master handle.
C14_GetSlaveReportsNotFound ==
    (call.op = "get_slave" /\ call.ret # "badarg" /\ call.live) =>
        /\ call.libret # 0 => call.ret = "error"
        /\ call.ret = "map" =>
              /\ call.libret = 0
              /\ call.map = MakeMap(SlaveInfoOf(call.index))

\* C15: at most one master handle is held (requested from the Fieldbus
\* Master and not yet released) at any time, after any sequence of
\* request_master calls.
C15_AtMostOneHandle == held <= 1

\* C17: by the end of teardown every registry node allocated by
\* create_domain has been freed and every master handle obtained by
\* request_master has been released: none is left unreleased.
C17_AllReleased ==
    ~loaded => /\ allocated = {}
               /\ held = 0

\* C19: if the Fieldbus Master's domain allocation fails, or the allocation
\* of the registry node fails after it, create_domain returns error and the
\* registry is unchanged: no node is written or linked.
C19_CreateCommitsOrNothing ==
    [][(/\ call'.op = "create_domain"
        /\ call'.ret # "badarg"
        /\ master # NULL
        /\ ~IsDuplicate(GetName(call'.arg).name)
        /\ ~call'.live) =>
            /\ call'.ret = "error"
            /\ domain_list' = domain_list
            /\ Nodes' = Nodes
            /\ Entries' = Entries
            /\ allocated' = allocated]_vars

(***************************************************************************)
(* Claims about the run loop (Spec).                                       *)
(***************************************************************************)

\* C6: in every iteration of the run loop, ecrt_master_receive is invoked
\* before ecrt_domain_process is invoked for any domain.
C6_ReceiveBeforeProcess ==
    (pc \in {"check", "advance"} \/ \E d \in DomainIds : processed[d] > 0)
        => received

\* The second domain of an iteration has just been processed.
C6_Witness ==
    /\ pc = "check"
    /\ received
    /\ Cardinality({d \in DomainIds : processed[d] > 0}) = 2

\* C8: every iteration of the run loop is a full cycle: after processing
\* every registered domain it queues every registered domain and invokes
\* ecrt_master_send exactly once, before the next iteration's receive.
C8_FullCycle ==
    pc = "end" => /\ RegisteredDomains \subseteq queued
                  /\ sends = 1

Refers(payload, name) ==
    \E i \in 1..(Len(payload) - Len(name) + 1) :
        SubSeq(payload, i, i + Len(name) - 1) = name

\* The handle of the registered domain with this name.
HandleOf(name) == heap[get_domain_by_name(name)].domain

\* C10: in a cycle over registered domains "A" and "B" where "A" reports
\* Complete and "B" reports Incomplete, exactly one notification is
\* delivered, its payload references "A", and none references "B".
C10_NotificationNamesDomain ==
    (/\ pc = "end"
     /\ RegisteredNames = {NameA, NameB}
     /\ processed[HandleOf(NameA)] = 1
     /\ processed[HandleOf(NameB)] = 1
     /\ wc[HandleOf(NameA)] = "EC_WC_COMPLETE"
     /\ wc[HandleOf(NameB)] = "EC_WC_INCOMPLETE") =>
        /\ Len(mbox) = 1
        /\ \A i \in 1..Len(mbox) :
              /\ Refers(mbox[i], NameA)
              /\ ~Refers(mbox[i], NameB)

\* C16: once run has entered its loop it never returns: no step takes the
\* loop back to where run has not been called while the emulator runs, and
\* the end of each iteration is followed by the start of another.
C16_LoopNeverReturns ==
    /\ [][(pc # "idle" /\ fault' = "none") => pc' # "idle"]_vars
    /\ (pc = "end") ~> (pc = "receive" \/ fault # "none")

\* An iteration that processed two domains and sent a notification has
\* reached its end.
C16_Witness ==
    /\ pc = "end"
    /\ Cardinality({d \in DomainIds : processed[d] > 0}) = 2
    /\ Len(mbox) > 0

\* C18: after remove_domain has freed a node, the run loop never reads it:
\* every statement of the inner loop that executes reads a node that is
\* allocated.
C18_NoUseAfterRemove ==
    [][(/\ pc \in {"process", "check", "advance"}
        /\ pc' # pc
        /\ fault' \in {"none", "freed_node"}) =>
            current \in allocated]_vars

\* C20: in an iteration of the run loop executed without concurrent registry
\* mutation, ecrt_domain_process is invoked exactly once for each registered
\* domain and for no other, and the state of a domain is evaluated right
\* after its own ecrt_domain_process, before any other domain is processed.
C20_EachDomainOnce ==
    ~mutated =>
        /\ \A d \in DomainIds : processed[d] <= 1
        /\ pc = "end" =>
              \A d \in DomainIds :
                  processed[d] = IF d \in RegisteredDomains THEN 1 ELSE 0
        /\ pc = "check" =>
              /\ processed[DomainOf(current)] = 1
              /\ wc[DomainOf(current)] = "none"
              /\ \A d \in DomainIds \ {DomainOf(current)} :
                    processed[d] > 0 => wc[d] # "none"
        /\ pc \in {"process", "advance", "end"} =>
              \A d \in DomainIds : processed[d] > 0 => wc[d] # "none"

\* An iteration over a registry of two that no NIF changed has reached its
\* end.
C20_Witness ==
    /\ pc = "end"
    /\ ~mutated
    /\ RegistrySize = 2
    /\ \A d \in RegisteredDomains : processed[d] = 1

=============================================================================
